---------------------------- MODULE Spec2Model ----------------------------
(***************************************************************************)
(* A model of src/components/GestureTree.tsx: the GestureTree component's  *)
(* refs and React state, its button handlers, the timers and tweens they   *)
(* start, the per-frame callback (the particle loop and the fireworks) and *)
(* the effect cleanup.                                                     *)
(*                                                                         *)
(* Wall-clock time is measured in milliseconds and advances in steps of    *)
(* Quantum, the largest step at which every timer deadline of the          *)
(* component falls on a step.  A timer callback runs at its deadline,      *)
(* before time advances further.  Frames (requestAnimationFrame) are not   *)
(* tied to the wall clock: the code counts 0.016 s per frame whatever the  *)
(* real frame rate is.                                                     *)
(***************************************************************************)
EXTENDS Integers, Sequences, FiniteSets, TLC

VARIABLES
    mounted,            \* the effects are set up and not yet cleaned up
    isTreeFormed,       \* React state, line 86
    currentTheme,       \* React state, line 87
    isSnowing,          \* React state, line 88
    pinchStrengthRef,   \* line 91, in units of 1/PScale
    colorThemeRef,      \* line 95
    isSnowingRef,       \* line 96
    snowVisible,        \* snowParticles.visible, line 391
    colors,             \* the particles' color attribute, lines 174, 275-277
    tweens,             \* gsap tweens of pinchStrengthRef, in creation order
    snowTimers,         \* pending setTimeout of toggleSnow: remaining ms
    layerTimers,        \* pending setTimeout of launchFireworks
    fireworks,          \* fireworksRef.current, line 110
    frameCount,         \* frames run so far, counted up to FrameCap
    nToggles,           \* calls of toggleTree so far
    nThemeChanges,      \* calls of changeTheme so far
    nSnowCalls,         \* calls of toggleSnow so far
    snowWindows,        \* times the snow field went from hidden to visible
    launches,           \* the calls of launchFireworks so far
    sinceToggle,        \* ms since the last toggleTree, capped at TWEEN_DURATION
    snowShownFor,       \* ms the snow field has been visible without a break
    spawned,            \* the layer callbacks that have run, with the frames since
    positions,          \* positions[i3..i3+2] of one particle i, line 170
    velocities,         \* velocities[i3..i3+2] of that particle, line 171
    targetTree,         \* targetTree[i3..i3+2] of that particle, line 172
    targetExploded,     \* targetExploded[i3..i3+2] of that particle, line 173
    snowPositions,      \* the snow field's position attribute, lines 372-380
    rotationTargetRef,  \* line 92, in units of 1/RScale rad
    rotationCurrentRef, \* line 93, in units of 1/RScale rad
    treeGroupRotation,  \* treeGroupRef.current.rotation, x and y, line 575
    isDraggingRef,      \* line 97
    lastMouseRef,       \* line 98, in pixels
    nEvents,            \* mouse and touch events handled so far
    lastEvent           \* the last of them: its type, position and touches

vars == <<mounted, isTreeFormed, currentTheme, isSnowing,
          pinchStrengthRef, colorThemeRef, isSnowingRef, snowVisible, colors,
          tweens, snowTimers, layerTimers, fireworks, frameCount, nToggles,
          nThemeChanges, nSnowCalls, snowWindows, launches, sinceToggle,
          snowShownFor,
          spawned, positions, velocities, targetTree, targetExploded,
          snowPositions, rotationTargetRef, rotationCurrentRef,
          treeGroupRotation, isDraggingRef, lastMouseRef, nEvents, lastEvent>>

treeVars == <<isTreeFormed, tweens, nToggles, sinceToggle>>
themeVars == <<currentTheme, colorThemeRef, colors, nThemeChanges>>
snowVars == <<isSnowing, isSnowingRef, snowVisible, snowTimers, nSnowCalls,
              snowWindows, snowShownFor>>
fwVars == <<layerTimers, fireworks, launches, spawned>>
particleVars == <<positions, velocities, targetTree, targetExploded>>
rotationVars == <<rotationTargetRef, rotationCurrentRef, treeGroupRotation>>
dragVars == <<isDraggingRef, lastMouseRef, nEvents, lastEvent>>

-----------------------------------------------------------------------------
(* Bounds of the model *)

MaxToggles == 2
MaxThemeChanges == 3
MaxSnowCalls == 2
MaxLaunches == 1
MaxFrames == 2
NParticles == 2
MaxStart == 8
SettleFrames == 40
MaxExplodeFrames == 18
NSnow == 1
MaxEvents == 3
MaxSnowFrames == 4

\* the frames are counted up to FrameCap
FrameCap == IF MaxFrames > SettleFrames THEN MaxFrames ELSE SettleFrames

-----------------------------------------------------------------------------
(* Program constants *)

SNOW_DURATION == 10000
TWEEN_DURATION == 1500
FW_LIFETIME == 3000
FRAME_DT == 16
THEME_COUNT == 3
\* lines 397-400, in units of 1/FScale
GRAVITY_STRENGTH == 350
EXPLOSION_STRENGTH == 250
DAMPING == 900
BROWN_MOTION == 30

\* lengths of the snow field in units of 1/FScale, lines 501-507
SNOW_FALL == 50
SNOW_SWAY == 20
SNOW_FLOOR == -15000
SNOW_TOP == 40000
SNOW_SPREAD == 60000

\* angles are in units of 1/RScale rad: the step of the automatic rotation,
\* line 573, and the rotation per pixel of drag, lines 629-630
RScale == 10 ^ 3
AUTO_ROTATION == 5
DRAG_ROTATION == 10

\* gsap renders a numeric property rounded to six decimals
PScale == 10 ^ 6

\* lengths, speeds and the factors of the integrator are kept in units of
\* 1/FScale
FScale == 10 ^ 3

RECURSIVE GCD(_, _)
GCD(a, b) == IF b = 0 THEN a ELSE GCD(b, a % b)

Min(a, b) == IF a < b THEN a ELSE b

Abs(a) == IF a < 0 THEN 0 - a ELSE a

\* the layers of one burst, lines 765-769; delay in ms (layer.delay * 1000)
layers(mob) ==
    << [count |-> IF mob THEN 60 ELSE 200, delay |-> 0],
       [count |-> IF mob THEN 45 ELSE 150, delay |-> 100],
       [count |-> IF mob THEN 30 ELSE 100, delay |-> 200] >>

Quantum ==
    GCD(GCD(SNOW_DURATION, TWEEN_DURATION),
        GCD(layers(FALSE)[2].delay, layers(FALSE)[3].delay))

\* the burst origins tried: x in [-10, 10], y in [10, 20], z = 0 (lines 757-761)
Origins == { <<-10, 10, 0>>, <<3, 17, 0>> }

\* targetTree and targetExploded of the particle, lines 180-251: a point of
\* the cone of radius 10 and height 25 and a point of the cube of side 60
TreeTargets == { <<3000, 4000, -2000>> }
ExplodedTargets == { <<-12000, 9000, 15000>> }

\* the start of a snow particle, lines 375-377: x and z in [-30, 30), y in
\* [10, 50)
SnowStarts == { <<-8000, 31000, 12000>> }

\* a mouse or touch event: its type, the clientX and clientY of the mouse or
\* of the first touch, and e.touches.length (0 for a mouse event)
Event(type, e, n) == [type |-> type, x |-> e.x, y |-> e.y, touches |-> n]

-----------------------------------------------------------------------------
(* Colors.  A color is <<r, g, b>>; a channel is the hex channel (0..255)  *)
(* times the multiplyScalar factor in tenths.                              *)

Hex(r, g, b) == <<r, g, b>>
multiplyScalar(c, tenths) == <<c[1] * tenths, c[2] * tenths, c[3] * tenths>>

colorGold == Hex(255, 215, 0)
colorWhite == Hex(255, 255, 255)
colorRed == Hex(255, 107, 107)
colorGreen == Hex(78, 205, 196)
colorBlue == Hex(65, 105, 225)
colorSilver == Hex(192, 192, 192)
colorPink == Hex(255, 105, 180)
colorPurple == Hex(147, 112, 219)

\* Math.random() in hundredths: a value of every branch of every theme
RandSamples == {25, 40, 65, 80}

\* the color drawn for theme th by the random number rand, lines 714-727
ThemeColor(th, rand) ==
    IF th = 0 THEN
        IF rand > 70 THEN multiplyScalar(colorWhite, 13)
        ELSE IF rand > 40 THEN multiplyScalar(colorGold, 15)
        ELSE IF rand > 25 THEN multiplyScalar(colorRed, 12)
        ELSE multiplyScalar(colorGreen, 10)
    ELSE IF th = 1 THEN
        IF rand > 60 THEN multiplyScalar(colorWhite, 14)
        ELSE IF rand > 30 THEN multiplyScalar(colorBlue, 15)
        ELSE multiplyScalar(colorSilver, 13)
    ELSE
        IF rand > 60 THEN multiplyScalar(colorWhite, 14)
        ELSE IF rand > 30 THEN multiplyScalar(colorPink, 15)
        ELSE multiplyScalar(colorPurple, 13)

\* the initial color of a particle, lines 264-277
InitialColor(rand) ==
    IF rand > 70 THEN multiplyScalar(colorWhite, 13)
    ELSE IF rand > 40 THEN multiplyScalar(colorGold, 15)
    ELSE IF rand > 25 THEN multiplyScalar(colorRed, 12)
    ELSE multiplyScalar(colorGreen, 10)

\* the three names of line 695, in ASCII, in the order of the array
themeNames == << "classic-christmas", "frozen", "dream-pink-purple" >>

-----------------------------------------------------------------------------
(* The gsap tween of toggleTree (lines 684-688): 1.5 s, ease power2.inOut. *)
(* gsap reads a tween's start value at the tween's first render, renders   *)
(* the tweens of one target in creation order on every tick of its ticker, *)
(* leaves earlier tweens of the same property running (overwrite: false),  *)
(* and writes the end value at the duration.                               *)

TweenSteps == TWEEN_DURATION \div Quantum
EaseDen == TweenSteps * TweenSteps

\* power2.inOut at progress k / TweenSteps, as a numerator over EaseDen:
\* p < 0.5 ? 2 p^2 : 1 - 2 (1 - p)^2
EaseNum(k) ==
    IF 2 * k < TweenSteps THEN 2 * k * k
    ELSE EaseDen - 2 * (TweenSteps - k) * (TweenSteps - k)

\* Math.round((s + (e - s) * ratio) * 1e6) / 1e6, in units of 1 / PScale
TweenValue(s, e, t) ==
    IF t >= TWEEN_DURATION THEN e
    ELSE LET n == EaseNum(t \div Quantum)
         IN  (2 * (s * EaseDen + (e - s) * n) + EaseDen) \div (2 * EaseDen)

\* one tick of gsap's ticker, dt ms after the previous one: every tween is
\* rendered in order, p being the property's value when the tween renders
RECURSIVE gsapTick(_, _, _)
gsapTick(ts, p, dt) ==
    IF ts = << >> THEN [value |-> p, rest |-> << >>]
    ELSE LET w == Head(ts)
             s0 == IF w.init THEN w.s ELSE p
             t1 == w.t + dt
             v == TweenValue(s0, w.e, t1)
             r == gsapTick(Tail(ts), v, dt)
         IN  [value |-> r.value,
              rest |-> IF t1 >= TWEEN_DURATION THEN r.rest
                       ELSE << [init |-> TRUE, s |-> s0, e |-> w.e, t |-> t1] >>
                            \o r.rest]

\* gsap.to(pinchStrengthRef, {current: target, duration: 1.5, ...})
gsapTo(ts, target) ==
    Append(ts, [init |-> FALSE, s |-> 0, e |-> target, t |-> 0])

-----------------------------------------------------------------------------
(* Initial state: after the first render and the effects of lines 121-613  *)

Init ==
    /\ mounted = TRUE
    /\ isTreeFormed = FALSE
    /\ currentTheme = themeNames[1]
    /\ isSnowing = FALSE
    /\ pinchStrengthRef = 0
    /\ colorThemeRef = 0
    /\ isSnowingRef = FALSE
    /\ snowVisible = FALSE
    /\ \E f \in [1..NParticles -> RandSamples] :
          colors = [i \in 1..NParticles |-> InitialColor(f[i])]
    /\ tweens = << >>
    /\ snowTimers = << >>
    /\ layerTimers = << >>
    /\ fireworks = << >>
    /\ frameCount = 0
    /\ nToggles = 0
    /\ nThemeChanges = 0
    /\ nSnowCalls = 0
    /\ snowWindows = 0
    /\ launches = << >>
    /\ sinceToggle = TWEEN_DURATION
    /\ snowShownFor = 0
    /\ spawned = << >>
    /\ targetTree \in TreeTargets
    /\ targetExploded \in ExplodedTargets
    /\ positions = targetExploded
    /\ velocities = <<0, 0, 0>>
    /\ snowPositions \in [1..NSnow -> SnowStarts]
    /\ rotationTargetRef = [x |-> 0, y |-> 0]
    /\ rotationCurrentRef = [x |-> 0, y |-> 0]
    /\ treeGroupRotation = [x |-> 0, y |-> 0]
    /\ isDraggingRef = FALSE
    /\ lastMouseRef = [x |-> 0, y |-> 0]
    /\ nEvents = 0
    /\ lastEvent = Event("none", [x |-> 0, y |-> 0], 0)

-----------------------------------------------------------------------------
(* Button handlers, lines 682-844 *)

\* toggleTree setting pinchStrengthRef.current itself instead of tweening it
toggleTree_Snap ==
    /\ isTreeFormed' = ~isTreeFormed
    /\ pinchStrengthRef' = IF ~isTreeFormed THEN PScale ELSE 0
    /\ nToggles' = nToggles + 1
    /\ sinceToggle' = 0
    /\ UNCHANGED <<particleVars, snowPositions, rotationVars, dragVars, mounted, themeVars, snowVars, fwVars, tweens, frameCount>>

\* toggleTree tweening toward the value of the state it leaves
toggleTree_Stale ==
    /\ isTreeFormed' = ~isTreeFormed
    /\ tweens' = gsapTo(tweens, IF isTreeFormed THEN PScale ELSE 0)
    /\ nToggles' = nToggles + 1
    /\ sinceToggle' = 0
    /\ UNCHANGED <<particleVars, snowPositions, rotationVars, dragVars, mounted, themeVars, snowVars, fwVars, pinchStrengthRef,
                   frameCount>>

toggleTree ==
    /\ isTreeFormed' = ~isTreeFormed
    /\ tweens' = gsapTo(tweens, IF ~isTreeFormed THEN PScale ELSE 0)
    /\ nToggles' = nToggles + 1
    /\ sinceToggle' = 0
    /\ UNCHANGED <<particleVars, snowPositions, rotationVars, dragVars, mounted, themeVars, snowVars, fwVars, pinchStrengthRef,
                   frameCount>>

\* changeTheme whose loop stops one particle short
changeTheme_SkipLast ==
    LET newTheme == (colorThemeRef + 1) % THEME_COUNT
    IN  /\ colorThemeRef' = newTheme
        /\ currentTheme' = themeNames[newTheme + 1]
        /\ \E f \in [1..NParticles -> RandSamples] :
              colors' = [i \in 1..NParticles |->
                            IF i < NParticles THEN ThemeColor(newTheme, f[i])
                            ELSE colors[i]]
        /\ nThemeChanges' = nThemeChanges + 1
        /\ UNCHANGED <<particleVars, snowPositions, rotationVars, dragVars, mounted, treeVars, snowVars, fwVars, pinchStrengthRef,
                       frameCount>>

\* changeTheme stepping the index by two
changeTheme_StepTwo ==
    LET newTheme == (colorThemeRef + 2) % THEME_COUNT
    IN  /\ colorThemeRef' = newTheme
        /\ currentTheme' = themeNames[newTheme + 1]
        /\ \E f \in [1..NParticles -> RandSamples] :
              colors' = [i \in 1..NParticles |-> ThemeColor(newTheme, f[i])]
        /\ nThemeChanges' = nThemeChanges + 1
        /\ UNCHANGED <<particleVars, snowPositions, rotationVars, dragVars, mounted, treeVars, snowVars, fwVars, pinchStrengthRef,
                       frameCount>>

changeTheme ==
    LET newTheme == (colorThemeRef + 1) % THEME_COUNT
    IN  /\ colorThemeRef' = newTheme
        /\ currentTheme' = themeNames[newTheme + 1]
        /\ \E f \in [1..NParticles -> RandSamples] :
              colors' = [i \in 1..NParticles |-> ThemeColor(newTheme, f[i])]
        /\ nThemeChanges' = nThemeChanges + 1
        /\ UNCHANGED <<particleVars, snowPositions, rotationVars, dragVars, mounted, treeVars, snowVars, fwVars, pinchStrengthRef,
                       frameCount>>

\* toggleSnow without its guard on isSnowingRef
toggleSnow_Unguarded ==
    /\ nSnowCalls' = nSnowCalls + 1
    /\ isSnowing' = TRUE
    /\ isSnowingRef' = TRUE
    /\ snowVisible' = TRUE
    /\ snowTimers' = Append(snowTimers, SNOW_DURATION)
    /\ snowWindows' = IF ~snowVisible /\ snowVisible' THEN snowWindows + 1
                      ELSE snowWindows
    /\ snowShownFor' = IF snowVisible /\ snowVisible' THEN snowShownFor ELSE 0
    /\ UNCHANGED <<particleVars, snowPositions, rotationVars, dragVars, mounted, treeVars, themeVars, fwVars, pinchStrengthRef,
                   frameCount>>

toggleSnow ==
    /\ nSnowCalls' = nSnowCalls + 1
    /\ IF ~isSnowingRef
       THEN /\ isSnowing' = TRUE
            /\ isSnowingRef' = TRUE
            /\ snowVisible' = TRUE
            /\ snowTimers' = Append(snowTimers, SNOW_DURATION)
       ELSE UNCHANGED <<isSnowing, isSnowingRef, snowVisible, snowTimers>>
    /\ snowWindows' = IF ~snowVisible /\ snowVisible' THEN snowWindows + 1
                      ELSE snowWindows
    /\ snowShownFor' = IF snowVisible /\ snowVisible' THEN snowShownFor ELSE 0
    /\ UNCHANGED <<particleVars, snowPositions, rotationVars, dragVars, mounted, treeVars, themeVars, fwVars, pinchStrengthRef,
                   frameCount>>

\* the callback hiding the snow field and leaving isSnowingRef set
SnowTimerFire_KeepFlag ==
    \E i \in DOMAIN snowTimers :
        /\ snowTimers[i] = 0
        /\ \A j \in 1..(i - 1) : snowTimers[j] # 0
        /\ isSnowing' = FALSE
        /\ snowVisible' = FALSE
        /\ snowTimers' = [j \in 1..(Len(snowTimers) - 1) |->
                             IF j < i THEN snowTimers[j] ELSE snowTimers[j + 1]]
        /\ snowShownFor' = 0
        /\ UNCHANGED <<particleVars, snowPositions, rotationVars, dragVars,
                       isSnowingRef, nSnowCalls, snowWindows, mounted,
                       treeVars, themeVars, fwVars, pinchStrengthRef,
                       frameCount>>

\* the callback of toggleSnow's setTimeout, lines 746-752
SnowTimerFire ==
    \E i \in DOMAIN snowTimers :
        /\ snowTimers[i] = 0
        /\ \A j \in 1..(i - 1) : snowTimers[j] # 0
        /\ isSnowing' = FALSE
        /\ isSnowingRef' = FALSE
        /\ snowVisible' = FALSE
        /\ snowTimers' = [j \in 1..(Len(snowTimers) - 1) |->
                             IF j < i THEN snowTimers[j] ELSE snowTimers[j + 1]]
        /\ snowShownFor' = 0
        /\ UNCHANGED <<particleVars, snowPositions, rotationVars, dragVars, nSnowCalls, snowWindows, mounted, treeVars, themeVars,
                       fwVars, pinchStrengthRef, frameCount>>

\* isMobile() (lines 9-12) is read at each call: mob
launchFireworks ==
    \E fireworkPos \in Origins, mob \in BOOLEAN :
        /\ layerTimers' = layerTimers \o
              [i \in 1..Len(layers(mob)) |->
                  [remaining |-> layers(mob)[i].delay,
                   elapsed |-> 0,
                   count |-> layers(mob)[i].count,
                   layerIndex |-> i - 1,
                   pos |-> fireworkPos,
                   launch |-> Len(launches) + 1]]
        /\ launches' = Append(launches, [mobile |-> mob, pos |-> fireworkPos])
        /\ UNCHANGED <<particleVars, snowPositions, rotationVars, dragVars, fireworks, spawned, mounted, treeVars, themeVars,
                       snowVars, pinchStrengthRef, frameCount>>

\* line 777: new THREE.Float32Array(...).  The namespace of the three module
\* has no member Float32Array, so the callee is undefined and the expression
\* throws a TypeError: the statements after it do not run.
ThreeHasFloat32Array == FALSE

\* the record pushed at lines 823-830, with the opacity of its material
\* (lines 812-818: the default, 1) in units of 1/FScale
NewFirework(L) ==
    [layerIndex |-> L.layerIndex, count |-> L.count, pos |-> L.pos,
     launch |-> L.launch, age |-> 0, lifetime |-> FW_LIFETIME, active |-> TRUE,
     inScene |-> TRUE, disposed |-> 0, opacity |-> FScale]

\* the callback of one layer's setTimeout, lines 772-831
LayerTimerFire ==
    \E i \in DOMAIN layerTimers :
        /\ layerTimers[i].remaining = 0
        /\ \A j \in 1..(i - 1) : layerTimers[j].remaining # 0
        /\ layerTimers' = [j \in 1..(Len(layerTimers) - 1) |->
                             IF j < i THEN layerTimers[j] ELSE layerTimers[j + 1]]
        /\ fireworks' = IF ThreeHasFloat32Array
                        THEN Append(fireworks, NewFirework(layerTimers[i]))
                        ELSE fireworks
        /\ spawned' = Append(spawned,
                             [launch |-> layerTimers[i].launch,
                              layerIndex |-> layerTimers[i].layerIndex,
                              at |-> layerTimers[i].elapsed,
                              frames |-> 0])
        /\ UNCHANGED <<particleVars, snowPositions, rotationVars, dragVars, launches, mounted, treeVars, themeVars, snowVars,
                       pinchStrengthRef, frameCount>>

-----------------------------------------------------------------------------
(* The integration of one particle, lines 418-470.  The loop body acts on  *)
(* the three coordinates of particle i and on nothing else, so the state   *)
(* of one particle is carried.                                             *)

\* x / y rounded to the nearest integer, for y > 0
RoundDiv(x, y) ==
    IF x >= 0 THEN (2 * x + y) \div (2 * y)
    ELSE 0 - ((2 * (0 - x) + y) \div (2 * y))

RECURSIVE SqrtBetween(_, _, _)
\* the largest r in lo..hi with r * r <= n
SqrtBetween(n, lo, hi) ==
    IF lo = hi THEN lo
    ELSE LET mid == (lo + hi + 1) \div 2
         IN  IF mid * mid <= n THEN SqrtBetween(n, mid, hi)
             ELSE SqrtBetween(n, lo, mid - 1)

\* Math.sqrt, rounded to the nearest integer
sqrt(n) ==
    LET r == SqrtBetween(n, 0, 46340)
    IN  IF n - r * r > r THEN r + 1 ELSE r

\* the thresholds 0.01 of lines 426 and 436 (and 452)
PinchThreshold == PScale \div 100
RestDist == FScale \div 100

\* the three values (Math.random() - 0.5) * BROWN_MOTION of lines 459-461,
\* each in [-BROWN_MOTION / 2, BROWN_MOTION / 2): the draws of one particle
\* in one frame
BrownSamples ==
    [1..3 -> { 0 - (BROWN_MOTION \div 2), BROWN_MOTION \div 2 - 1 }]

\* the draws of lines 459-461 that push along one diagonal: all three at the
\* lower end of the range, or all three at the upper end
BrownExtremes ==
    { b \in BrownSamples : b[1] = b[2] /\ b[2] = b[3] }

\* the loop body with the two targets exchanged
integrate_Exchanged(p, v, tTree, tExploded, pinchStrength, brown) ==
    LET tree == pinchStrength > PinchThreshold
        target == IF tree THEN tExploded ELSE tTree
        d == [k \in 1..3 |-> target[k] - p[k]]
        distSq == d[1] * d[1] + d[2] * d[2] + d[3] * d[3]
        dist == sqrt(distSq)
        force == IF tree THEN RoundDiv(GRAVITY_STRENGTH * pinchStrength, PScale)
                 ELSE EXPLOSION_STRENGTH
        pulled == [k \in 1..3 |->
                      IF distSq > RestDist * RestDist
                      THEN v[k] + RoundDiv(d[k] * force, dist)
                      ELSE v[k]]
        shaken == [k \in 1..3 |->
                      IF tree THEN pulled[k] ELSE pulled[k] + brown[k]]
        damped == [k \in 1..3 |-> RoundDiv(shaken[k] * DAMPING, FScale)]
    IN  [p |-> [k \in 1..3 |-> p[k] + damped[k]], v |-> damped]

\* the loop body with the explode branch pushing away from its target
integrate_Repelled(p, v, tTree, tExploded, pinchStrength, brown) ==
    LET tree == pinchStrength > PinchThreshold
        target == IF tree THEN tTree ELSE tExploded
        d == [k \in 1..3 |-> target[k] - p[k]]
        distSq == d[1] * d[1] + d[2] * d[2] + d[3] * d[3]
        dist == sqrt(distSq)
        force == IF tree THEN RoundDiv(GRAVITY_STRENGTH * pinchStrength, PScale)
                 ELSE 0 - EXPLOSION_STRENGTH
        pulled == [k \in 1..3 |->
                      IF distSq > RestDist * RestDist
                      THEN v[k] + RoundDiv(d[k] * force, dist)
                      ELSE v[k]]
        shaken == [k \in 1..3 |->
                      IF tree THEN pulled[k] ELSE pulled[k] + brown[k]]
        damped == [k \in 1..3 |-> RoundDiv(shaken[k] * DAMPING, FScale)]
    IN  [p |-> [k \in 1..3 |-> p[k] + damped[k]], v |-> damped]

\* the loop body with the jitter added in both branches
integrate_Shaken(p, v, tTree, tExploded, pinchStrength, brown) ==
    LET tree == pinchStrength > PinchThreshold
        target == IF tree THEN tTree ELSE tExploded
        d == [k \in 1..3 |-> target[k] - p[k]]
        distSq == d[1] * d[1] + d[2] * d[2] + d[3] * d[3]
        dist == sqrt(distSq)
        force == IF tree THEN RoundDiv(GRAVITY_STRENGTH * pinchStrength, PScale)
                 ELSE EXPLOSION_STRENGTH
        pulled == [k \in 1..3 |->
                      IF distSq > RestDist * RestDist
                      THEN v[k] + RoundDiv(d[k] * force, dist)
                      ELSE v[k]]
        shaken == [k \in 1..3 |-> pulled[k] + brown[k]]
        damped == [k \in 1..3 |-> RoundDiv(shaken[k] * DAMPING, FScale)]
    IN  [p |-> [k \in 1..3 |-> p[k] + damped[k]], v |-> damped]

\* the loop body for one particle: its position p, its velocity v, its two
\* targets, the pinch strength of the frame and the three draws of the
\* explode branch
integrate(p, v, tTree, tExploded, pinchStrength, brown) ==
    LET tree == pinchStrength > PinchThreshold
        target == IF tree THEN tTree ELSE tExploded
        d == [k \in 1..3 |-> target[k] - p[k]]
        distSq == d[1] * d[1] + d[2] * d[2] + d[3] * d[3]
        dist == sqrt(distSq)
        force == IF tree THEN RoundDiv(GRAVITY_STRENGTH * pinchStrength, PScale)
                 ELSE EXPLOSION_STRENGTH
        pulled == [k \in 1..3 |->
                      IF distSq > RestDist * RestDist
                      THEN v[k] + RoundDiv(d[k] * force, dist)
                      ELSE v[k]]
        shaken == [k \in 1..3 |->
                      IF tree THEN pulled[k] ELSE pulled[k] + brown[k]]
        damped == [k \in 1..3 |-> RoundDiv(shaken[k] * DAMPING, FScale)]
    IN  [p |-> [k \in 1..3 |-> p[k] + damped[k]], v |-> damped]

\* the particle loop of a frame, lines 416-471, with the draws of the explode
\* branch taken from Browns
ParticleStepWith(Browns) ==
    \E brown \in Browns :
        LET r == integrate(positions, velocities, targetTree, targetExploded,
                           pinchStrengthRef, brown)
        IN  /\ positions' = r.p
            /\ velocities' = r.v
            /\ UNCHANGED <<targetTree, targetExploded>>

ParticleStep == ParticleStepWith(BrownSamples)

-----------------------------------------------------------------------------
(* The frame callback animate, lines 402-582: the particle loop, the snow,  *)
(* the fireworks and the rotation                                          *)

\* the opacity of lines 562-563 at an age, in units of 1/FScale: 1 while
\* age / lifetime < 0.7, then 1 - (age / lifetime - 0.7) / 0.3, which is
\* (lifetime - age) / (0.3 * lifetime)
fwOpacity(age, lifetime) ==
    IF 10 * age < 7 * lifetime THEN FScale
    ELSE RoundDiv((lifetime - age) * FScale * 10, 3 * lifetime)

AgeFirework(fw) ==
    IF ~fw.active THEN fw
    ELSE LET age == fw.age + FRAME_DT
         IN  IF age > fw.lifetime
             THEN [fw EXCEPT !.age = age, !.active = FALSE, !.inScene = FALSE,
                             !.disposed = @ + 1]
             ELSE [fw EXCEPT !.age = age,
                             !.opacity = fwOpacity(age, fw.lifetime)]

\* the values of Math.sin tried, in units of 1/FScale (lines 501-502)
SinSamples == { 0 - FScale, FScale }

\* the values (Math.random() - 0.5) * 60 tried (lines 506-507)
SpreadSamples == { 0 - (SNOW_SPREAD \div 2), SNOW_SPREAD \div 2 - 1 }

\* one snow particle without the test of line 504
snowFall_NoWrap(p, sinFall, sinSway, rx, rz) ==
    <<p[1] + RoundDiv(sinSway * SNOW_SWAY, FScale),
      p[2] - (SNOW_FALL + RoundDiv(sinFall * SNOW_SWAY, FScale)),
      p[3]>>

\* the loop body of lines 500-508 for one snow particle at p: the two sines
\* of the frame and the two draws of a particle that is put back on top
snowFall(p, sinFall, sinSway, rx, rz) ==
    LET y == p[2] - (SNOW_FALL + RoundDiv(sinFall * SNOW_SWAY, FScale))
        x == p[1] + RoundDiv(sinSway * SNOW_SWAY, FScale)
    IN  IF y < SNOW_FLOOR THEN <<rx, SNOW_TOP, rz>>
        ELSE <<x, y, p[3]>>

\* the snow animation of a frame, lines 495-510
SnowStep ==
    IF snowVisible
    THEN \E sinFall \in [1..NSnow -> SinSamples],
            sinSway \in [1..NSnow -> SinSamples],
            rx \in [1..NSnow -> SpreadSamples],
            rz \in [1..NSnow -> SpreadSamples] :
            snowPositions' =
                [i \in 1..NSnow |->
                    snowFall(snowPositions[i], sinFall[i], sinSway[i],
                             rx[i], rz[i])]
    ELSE UNCHANGED snowPositions

\* isTreeActive of line 569
ActiveThreshold == PScale \div 2

\* the rotation control with the flag isTreeFormed in the place of
\* isTreeActive
RotationStep_Formed ==
    /\ rotationCurrentRef' =
           IF isTreeFormed /\ ~isDraggingRef
           THEN [rotationCurrentRef EXCEPT !.y = @ + AUTO_ROTATION]
           ELSE rotationCurrentRef
    /\ treeGroupRotation' = rotationCurrentRef'
    /\ UNCHANGED rotationTargetRef

\* the rotation control of a frame, lines 568-577
RotationStep ==
    /\ rotationCurrentRef' =
           IF pinchStrengthRef > ActiveThreshold /\ ~isDraggingRef
           THEN [rotationCurrentRef EXCEPT !.y = @ + AUTO_ROTATION]
           ELSE rotationCurrentRef
    /\ treeGroupRotation' = rotationCurrentRef'
    /\ UNCHANGED rotationTargetRef

\* one run of the frame callback, the draws of the explode branch taken from
\* Browns
animateWith(Browns) ==
    /\ mounted
    /\ frameCount' = Min(frameCount + 1, FrameCap)
    /\ fireworks' = [i \in DOMAIN fireworks |-> AgeFirework(fireworks[i])]
    /\ spawned' = [i \in DOMAIN spawned |->
                      [spawned[i] EXCEPT !.frames = @ + 1]]
    /\ ParticleStepWith(Browns)
    /\ SnowStep
    /\ RotationStep
    /\ UNCHANGED <<layerTimers, launches, mounted, treeVars, themeVars,
                   snowVars, pinchStrengthRef, dragVars>>

animate == animateWith(BrownSamples)

\* the cleanup of the first effect, lines 595-612: cancelAnimationFrame and
\* the disposal of the renderer, the composer and the main particle set
Cleanup ==
    /\ mounted
    /\ mounted' = FALSE
    /\ UNCHANGED <<particleVars, snowPositions, rotationVars, dragVars, treeVars, themeVars, snowVars, fwVars,
                   pinchStrengthRef, frameCount>>

-----------------------------------------------------------------------------
(* The mouse and touch handlers of the second effect, lines 615-662.  They *)
(* are listeners of the window, registered anew with the isTreeFormed of   *)
(* every render and removed at unmount.  An event e is the clientX and     *)
(* clientY of the mouse or of the first touch; n is e.touches.length.      *)

\* the positions of the pointer tried, in pixels
PointerSamples == { [x |-> 0, y |-> 0], [x |-> 4, y |-> 1] }

\* the numbers of touches tried
TouchCounts == { 1, 2 }

\* the drag of lines 626-632 and 650-656: the rotation gains DRAG_ROTATION
\* per pixel since lastMouseRef, which then becomes e
dragTo(e) ==
    /\ rotationCurrentRef' =
           [x |-> rotationCurrentRef.x + (e.y - lastMouseRef.y) * DRAG_ROTATION,
            y |-> rotationCurrentRef.y + (e.x - lastMouseRef.x) * DRAG_ROTATION]
    /\ lastMouseRef' = e

handleMouseDown(e) ==
    /\ mounted
    /\ nEvents' = nEvents + 1
    /\ lastEvent' = Event("mousedown", e, 0)
    /\ IF isTreeFormed
       THEN isDraggingRef' = TRUE /\ lastMouseRef' = e
       ELSE UNCHANGED <<isDraggingRef, lastMouseRef>>
    /\ UNCHANGED <<particleVars, snowPositions, rotationVars, mounted,
                   treeVars, themeVars, snowVars, fwVars, pinchStrengthRef,
                   frameCount>>

\* handleMouseMove with deltaX added to x and deltaY added to y
handleMouseMove_Swapped(e) ==
    /\ mounted
    /\ nEvents' = nEvents + 1
    /\ lastEvent' = Event("mousemove", e, 0)
    /\ IF isDraggingRef /\ isTreeFormed
       THEN /\ rotationCurrentRef' =
                  [x |-> rotationCurrentRef.x
                            + (e.x - lastMouseRef.x) * DRAG_ROTATION,
                   y |-> rotationCurrentRef.y
                            + (e.y - lastMouseRef.y) * DRAG_ROTATION]
            /\ lastMouseRef' = e
       ELSE UNCHANGED <<rotationCurrentRef, lastMouseRef>>
    /\ UNCHANGED <<particleVars, snowPositions, rotationTargetRef,
                   treeGroupRotation, isDraggingRef, mounted, treeVars,
                   themeVars, snowVars, fwVars, pinchStrengthRef, frameCount>>

handleMouseMove(e) ==
    /\ mounted
    /\ nEvents' = nEvents + 1
    /\ lastEvent' = Event("mousemove", e, 0)
    /\ IF isDraggingRef /\ isTreeFormed
       THEN dragTo(e)
       ELSE UNCHANGED <<rotationCurrentRef, lastMouseRef>>
    /\ UNCHANGED <<particleVars, snowPositions, rotationTargetRef,
                   treeGroupRotation, isDraggingRef, mounted, treeVars,
                   themeVars, snowVars, fwVars, pinchStrengthRef, frameCount>>

\* handleMouseUp putting the rotation back to 0
handleMouseUp_Reset ==
    /\ mounted
    /\ nEvents' = nEvents + 1
    /\ lastEvent' = Event("mouseup", [x |-> 0, y |-> 0], 0)
    /\ isDraggingRef' = FALSE
    /\ rotationCurrentRef' = [x |-> 0, y |-> 0]
    /\ UNCHANGED <<particleVars, snowPositions, rotationTargetRef,
                   treeGroupRotation, lastMouseRef, mounted, treeVars,
                   themeVars, snowVars, fwVars, pinchStrengthRef, frameCount>>

handleMouseUp ==
    /\ mounted
    /\ nEvents' = nEvents + 1
    /\ lastEvent' = Event("mouseup", [x |-> 0, y |-> 0], 0)
    /\ isDraggingRef' = FALSE
    /\ UNCHANGED <<particleVars, snowPositions, rotationVars, lastMouseRef,
                   mounted, treeVars, themeVars, snowVars, fwVars,
                   pinchStrengthRef, frameCount>>

handleTouchStart(e, n) ==
    /\ mounted
    /\ nEvents' = nEvents + 1
    /\ lastEvent' = Event("touchstart", e, n)
    /\ IF isTreeFormed /\ n = 1
       THEN isDraggingRef' = TRUE /\ lastMouseRef' = e
       ELSE UNCHANGED <<isDraggingRef, lastMouseRef>>
    /\ UNCHANGED <<particleVars, snowPositions, rotationVars, mounted,
                   treeVars, themeVars, snowVars, fwVars, pinchStrengthRef,
                   frameCount>>

handleTouchMove(e, n) ==
    /\ mounted
    /\ nEvents' = nEvents + 1
    /\ lastEvent' = Event("touchmove", e, n)
    /\ IF isDraggingRef /\ isTreeFormed /\ n = 1
       THEN dragTo(e)
       ELSE UNCHANGED <<rotationCurrentRef, lastMouseRef>>
    /\ UNCHANGED <<particleVars, snowPositions, rotationTargetRef,
                   treeGroupRotation, isDraggingRef, mounted, treeVars,
                   themeVars, snowVars, fwVars, pinchStrengthRef, frameCount>>

handleTouchEnd ==
    /\ mounted
    /\ nEvents' = nEvents + 1
    /\ lastEvent' = Event("touchend", [x |-> 0, y |-> 0], 0)
    /\ isDraggingRef' = FALSE
    /\ UNCHANGED <<particleVars, snowPositions, rotationVars, lastMouseRef,
                   mounted, treeVars, themeVars, snowVars, fwVars,
                   pinchStrengthRef, frameCount>>

-----------------------------------------------------------------------------
(* Time: d ms pass, no timer being overdue and none becoming overdue; the  *)
(* tweens are rendered by gsap's ticker at the end of the step.            *)

Advance(d) ==
    /\ \A i \in DOMAIN snowTimers : snowTimers[i] >= d
    /\ \A i \in DOMAIN layerTimers : layerTimers[i].remaining >= d
    /\ snowTimers' = [i \in DOMAIN snowTimers |-> snowTimers[i] - d]
    /\ layerTimers' = [i \in DOMAIN layerTimers |->
                          [layerTimers[i] EXCEPT !.remaining = @ - d,
                                                 !.elapsed = @ + d]]
    /\ LET r == gsapTick(tweens, pinchStrengthRef, d)
       IN  /\ pinchStrengthRef' = r.value
           /\ tweens' = r.rest
    /\ sinceToggle' = Min(sinceToggle + d, TWEEN_DURATION)
    /\ snowShownFor' = IF snowVisible
                       THEN Min(snowShownFor + d, SNOW_DURATION + Quantum)
                       ELSE 0
    /\ UNCHANGED <<particleVars, snowPositions, rotationVars, dragVars, isTreeFormed, nToggles, isSnowing, isSnowingRef, snowVisible,
                   nSnowCalls, snowWindows, fireworks, launches, spawned, mounted,
                   themeVars, frameCount>>

\* the deadlines ahead: of the timers and of the tweens
Deadlines ==
    { snowTimers[i] : i \in DOMAIN snowTimers }
    \cup { layerTimers[i].remaining : i \in DOMAIN layerTimers }
    \cup { TWEEN_DURATION - tweens[i].t : i \in DOMAIN tweens }

\* time passes by one quantum
Tick == Advance(Quantum)

\* time passes up to the next deadline
Leap ==
    /\ Deadlines # {}
    /\ \E d \in Deadlines :
          /\ d > 0
          /\ \A e \in Deadlines : d <= e
          /\ Advance(d)

-----------------------------------------------------------------------------
(* The buttons, lines 888-924: a handler runs on a click of its button,    *)
(* which the disabled attribute of the last render allows.                 *)

themeButtonDisabled == ~isTreeFormed
\* the snow button disabled by the formed flag alone
snowButtonDisabled_FormedOnly == ~isTreeFormed
snowButtonDisabled == ~isTreeFormed \/ isSnowing
fireworksButtonDisabled == ~isTreeFormed

ClickTree == mounted /\ nToggles < MaxToggles /\ toggleTree
ClickTheme ==
    mounted /\ ~themeButtonDisabled /\ nThemeChanges < MaxThemeChanges
    /\ changeTheme
ClickSnow ==
    mounted /\ ~snowButtonDisabled /\ nSnowCalls < MaxSnowCalls /\ toggleSnow
ClickFireworks ==
    mounted /\ ~fireworksButtonDisabled /\ Len(launches) < MaxLaunches
    /\ launchFireworks
Frame == frameCount < MaxFrames /\ animate

\* the events of the window, MaxEvents of them at most
MouseDown ==
    nEvents < MaxEvents /\ \E e \in PointerSamples : handleMouseDown(e)
MouseMove ==
    nEvents < MaxEvents /\ \E e \in PointerSamples : handleMouseMove(e)
MouseUp == nEvents < MaxEvents /\ handleMouseUp
TouchStart ==
    nEvents < MaxEvents
    /\ \E e \in PointerSamples, n \in TouchCounts : handleTouchStart(e, n)
TouchMove ==
    nEvents < MaxEvents
    /\ \E e \in PointerSamples, n \in TouchCounts : handleTouchMove(e, n)
TouchEnd == nEvents < MaxEvents /\ handleTouchEnd

\* a handler invoked whatever its button shows
CallToggleSnow == nSnowCalls < MaxSnowCalls /\ toggleSnow

\* the buttons, the timers and the cleanup, time passing from deadline to
\* deadline
Next ==
    \/ ClickTree
    \/ ClickTheme
    \/ ClickSnow
    \/ ClickFireworks
    \/ SnowTimerFire
    \/ LayerTimerFire
    \/ Cleanup
    \/ Leap

Spec == Init /\ [][Next]_vars

\* the fireworks: the launch, the layer timers, the frames and the cleanup,
\* time passing from deadline to deadline
NextFw ==
    \/ ClickTree
    \/ ClickFireworks
    \/ LayerTimerFire
    \/ Frame
    \/ Cleanup
    \/ Leap

SpecFw == Init /\ [][NextFw]_vars

\* the color themes
NextTheme ==
    \/ ClickTree
    \/ ClickTheme
    \/ Cleanup

SpecTheme == Init /\ [][NextTheme]_vars

\* the tree toggle and its tween, quantum by quantum
NextTween ==
    \/ ClickTree
    \/ Cleanup
    \/ Tick

SpecTween == Init /\ [][NextTween]_vars

\* the snow handler and its timer, quantum by quantum
NextSnow ==
    \/ CallToggleSnow
    \/ SnowTimerFire
    \/ Cleanup
    \/ Tick

SpecSnow == Init /\ [][NextSnow]_vars

\* the start of a particle when the pinch strength has reached 1, from its
\* tree target: MaxStart away along or across the axes
StartOffsets ==
    { [k \in 1..3 |-> o[k] * MaxStart * FScale] :
         o \in [1..3 -> {-1, 0, 1}] \ { <<0, 0, 0>> } }

StartVelocities == { <<0, 0, 0>>, <<3000, 0, 0>>, <<0, -1500, 1500>> }

\* the tree formed and its tween over: the pinch strength is 1
InitSettle ==
    /\ mounted = TRUE
    /\ isTreeFormed = TRUE
    /\ currentTheme = themeNames[1]
    /\ isSnowing = FALSE
    /\ pinchStrengthRef = PScale
    /\ colorThemeRef = 0
    /\ isSnowingRef = FALSE
    /\ snowVisible = FALSE
    /\ \E f \in [1..NParticles -> {25}] :
          colors = [i \in 1..NParticles |-> InitialColor(f[i])]
    /\ tweens = << >>
    /\ snowTimers = << >>
    /\ layerTimers = << >>
    /\ fireworks = << >>
    /\ frameCount = 0
    /\ nToggles = 1
    /\ nThemeChanges = 0
    /\ nSnowCalls = 0
    /\ snowWindows = 0
    /\ launches = << >>
    /\ sinceToggle = TWEEN_DURATION
    /\ snowShownFor = 0
    /\ spawned = << >>
    /\ targetTree \in TreeTargets
    /\ targetExploded \in ExplodedTargets
    /\ \/ positions = targetExploded
       \/ \E o \in StartOffsets :
             positions = [k \in 1..3 |-> targetTree[k] + o[k]]
    /\ velocities \in StartVelocities
    /\ snowPositions \in [1..NSnow -> SnowStarts]
    /\ rotationTargetRef = [x |-> 0, y |-> 0]
    /\ rotationCurrentRef = [x |-> 0, y |-> 0]
    /\ treeGroupRotation = [x |-> 0, y |-> 0]
    /\ isDraggingRef = TRUE
    /\ lastMouseRef = [x |-> 0, y |-> 0]
    /\ nEvents = 1
    /\ lastEvent = Event("mousedown", [x |-> 0, y |-> 0], 0)

\* frame after frame with the pinch strength held at 1
NextSettle == animate

SpecSettle == InitSettle /\ [][NextSettle]_vars

\* The mount state with the colours of one draw, and then MaxExplodeFrames
\* frames with the pinch strength held at 0, every frame drawing one of the
\* two diagonal extremes of the jitter
InitExplode ==
    /\ Init
    /\ \A i \in 1..NParticles : colors[i] = InitialColor(25)

ExplodeFrame == frameCount < MaxExplodeFrames /\ animateWith(BrownExtremes)

NextExplode == ExplodeFrame

SpecExplode == InitExplode /\ [][NextExplode]_vars

\* the heights of a snow particle tried near the floor of the field: the
\* particle falls 0.03 to 0.07 a frame from its start, so it passes through
\* every band of that width above the floor
SnowHeights == { SNOW_FLOOR, SNOW_FLOOR + 40, SNOW_FLOOR + 100 }

\* The tree formed and its tween over, the snow just switched on and its
\* timer pending, the snow particles near the floor; then MaxSnowFrames
\* frames, and the timer hiding the snow
InitSnowFall ==
    /\ mounted = TRUE
    /\ isTreeFormed = TRUE
    /\ currentTheme = themeNames[1]
    /\ isSnowing = TRUE
    /\ pinchStrengthRef = PScale
    /\ colorThemeRef = 0
    /\ isSnowingRef = TRUE
    /\ snowVisible = TRUE
    /\ colors = [i \in 1..NParticles |-> InitialColor(25)]
    /\ tweens = << >>
    /\ snowTimers = << SNOW_DURATION >>
    /\ layerTimers = << >>
    /\ fireworks = << >>
    /\ frameCount = 0
    /\ nToggles = 1
    /\ nThemeChanges = 0
    /\ nSnowCalls = 1
    /\ snowWindows = 1
    /\ launches = << >>
    /\ sinceToggle = TWEEN_DURATION
    /\ snowShownFor = 0
    /\ spawned = << >>
    /\ targetTree \in TreeTargets
    /\ targetExploded \in ExplodedTargets
    /\ positions = targetExploded
    /\ velocities = <<0, 0, 0>>
    /\ \E h \in [1..NSnow -> SnowHeights] :
          snowPositions = [i \in 1..NSnow |-> <<0, h[i], 0>>]
    /\ rotationTargetRef = [x |-> 0, y |-> 0]
    /\ rotationCurrentRef = [x |-> 0, y |-> 0]
    /\ treeGroupRotation = [x |-> 0, y |-> 0]
    /\ isDraggingRef = FALSE
    /\ lastMouseRef = [x |-> 0, y |-> 0]
    /\ nEvents = 0
    /\ lastEvent = Event("none", [x |-> 0, y |-> 0], 0)

SnowFrame == frameCount < MaxSnowFrames /\ animate

NextSnowFall ==
    \/ SnowFrame
    \/ SnowTimerFire
    \/ Leap

SpecSnowFall == InitSnowFall /\ [][NextSnowFall]_vars

\* the mount state with the colours of one draw
InitDrag == InitExplode

\* the rotation: the tree toggle and its tween, the mouse and the touches,
\* the frames and the cleanup, time passing from deadline to deadline
NextDrag ==
    \/ ClickTree
    \/ MouseDown
    \/ MouseMove
    \/ MouseUp
    \/ TouchStart
    \/ TouchMove
    \/ TouchEnd
    \/ Frame
    \/ Cleanup
    \/ Leap

SpecDrag == InitDrag /\ [][NextDrag]_vars

\* every handler, one control at a time beside the tree button: the theme
\* button, the snow button, the fireworks button, or the mouse and the
\* touches
OnlyTheme == nSnowCalls = 0 /\ launches = << >> /\ nEvents = 0
OnlySnow == nThemeChanges = 0 /\ launches = << >> /\ nEvents = 0
OnlyFireworks == nThemeChanges = 0 /\ nSnowCalls = 0 /\ nEvents = 0
OnlyPointer == nThemeChanges = 0 /\ nSnowCalls = 0 /\ launches = << >>

NextWriters ==
    \/ ClickTree
    \/ OnlyTheme /\ ClickTheme
    \/ OnlySnow /\ ClickSnow
    \/ OnlyFireworks /\ ClickFireworks
    \/ SnowTimerFire
    \/ LayerTimerFire
    \/ OnlyPointer /\ MouseDown
    \/ OnlyPointer /\ MouseMove
    \/ OnlyPointer /\ MouseUp
    \/ OnlyPointer /\ TouchStart
    \/ OnlyPointer /\ TouchMove
    \/ OnlyPointer /\ TouchEnd
    \/ Frame
    \/ Cleanup
    \/ Leap

SpecWriters == InitDrag /\ [][NextWriters]_vars

-----------------------------------------------------------------------------
(* Claims *)

\* while the snow field is visible exactly one timer is pending, due when the
\* field has been visible for SNOW_DURATION; while hidden none is
SnowWindowInv ==
    /\ snowVisible =>
          /\ Len(snowTimers) = 1
          /\ snowTimers[1] = SNOW_DURATION - snowShownFor
    /\ ~snowVisible => snowTimers = << >>

SnowWindowStep ==
    \* hidden again only when the window has lasted SNOW_DURATION
    /\ (snowVisible /\ ~snowVisible') => snowShownFor = SNOW_DURATION
    \* a call with no window active shows the field and starts one timer
    /\ (nSnowCalls' # nSnowCalls /\ ~snowVisible) =>
          /\ snowVisible'
          /\ snowTimers' = << SNOW_DURATION >>
    \* a call during the window changes nothing
    /\ (nSnowCalls' # nSnowCalls /\ snowVisible) =>
          UNCHANGED <<snowVisible, snowTimers, isSnowing, isSnowingRef,
                      snowShownFor, snowWindows>>

\* C1: after toggleSnow with no snow window active the snow field is visible
\* for one window of 10 s, until its single timer fires, and is then hidden;
\* a toggleSnow during the window is a no-op: no visibility change, no new
\* timer, no extension of the window.
C1_SnowWindow == []SnowWindowInv /\ [][SnowWindowStep]_vars

\* a window that has ended after a second call was made during it
C1_Witness ==
    /\ nSnowCalls = 2
    /\ snowWindows = 1
    /\ ~snowVisible
    /\ snowTimers = << >>

\* the fireworks of launch l, in the order of the collection
FireworksOf(l) == SelectSeq(fireworks, LAMBDA f : f.launch = l)

\* the layer callbacks of launch l that have run, in the order they ran
SpawnedOf(l) == SelectSeq(spawned, LAMBDA sp : sp.launch = l)

\* C2: one launchFireworks on desktop adds exactly 3 entries to the fireworks
\* collection, with 200, 150 and 100 particles (450 in total), created in
\* that order 0, 100 and 200 ms after the trigger, all at the burst origin,
\* each starting with age 0 and active.
C2_ThreeLayers ==
    \A l \in DOMAIN launches :
        ( /\ ~launches[l].mobile
          /\ \A i \in DOMAIN layerTimers : layerTimers[i].launch # l )
        => LET fws == FireworksOf(l)
               sps == SpawnedOf(l)
           IN  /\ Len(fws) = 3
               /\ Len(sps) = 3
               /\ fws[1].count = 200 /\ fws[2].count = 150 /\ fws[3].count = 100
               /\ fws[1].count + fws[2].count + fws[3].count = 450
               /\ \A i \in 1..3 :
                     /\ fws[i].layerIndex = i - 1
                     /\ fws[i].pos = launches[l].pos
                     /\ fws[i].lifetime = FW_LIFETIME
                     /\ sps[i].layerIndex = i - 1
                     /\ sps[i].at = 100 * (i - 1)
                     /\ sps[i].frames = 0 => (fws[i].age = 0 /\ fws[i].active)

\* the first age above the lifetime that a firework aged frame by frame has
RECURSIVE FirstAgeOver(_)
FirstAgeOver(age) ==
    IF age > FW_LIFETIME THEN age ELSE FirstAgeOver(age + FRAME_DT)

\* C3: every firework that has been created is aged by FRAME_DT on each frame
\* while active, and is destroyed (out of the scene, geometry and material
\* released, active cleared) exactly once, on the first frame at which its
\* age exceeds FW_LIFETIME and not before; after that it is neither updated
\* nor released again.  A firework is created by its layer's callback.
C3_AgedAndDestroyedOnce ==
    \A i \in DOMAIN spawned :
        \E j \in DOMAIN fireworks :
            LET fw == fireworks[j]
                k == spawned[i].frames
            IN  /\ fw.launch = spawned[i].launch
                /\ fw.layerIndex = spawned[i].layerIndex
                /\ k * FRAME_DT <= FW_LIFETIME =>
                      /\ fw.active /\ fw.inScene /\ fw.disposed = 0
                      /\ fw.age = k * FRAME_DT
                /\ k * FRAME_DT > FW_LIFETIME =>
                      /\ ~fw.active /\ ~fw.inScene /\ fw.disposed = 1
                      /\ fw.age = FirstAgeOver(0)

\* C4: once the cleanup of the component has run, every firework, one that
\* was active at the teardown or one spawned by a layer timer pending at the
\* teardown, has had its render resources released.
C4_ReleasedAtTeardown ==
    ~mounted =>
        /\ \A i \in DOMAIN spawned :
              \E j \in DOMAIN fireworks :
                  /\ fireworks[j].launch = spawned[i].launch
                  /\ fireworks[j].layerIndex = spawned[i].layerIndex
        /\ \A j \in DOMAIN fireworks :
              ~fireworks[j].inScene /\ fireworks[j].disposed >= 1

\* the largest change of the eased ratio over one quantum, in units of
\* 1 / PScale, rounded up
EaseStepMax ==
    LET d(k) == EaseNum(k + 1) - EaseNum(k)
        m == CHOOSE x \in { d(k) : k \in 0..(TweenSteps - 1) } :
                 \A k \in 0..(TweenSteps - 1) : d(k) <= x
    IN  (m * PScale) \div EaseDen + 1

PinchStep ==
    pinchStrengthRef' # pinchStrengthRef =>
        \* written by a render of the tweens, not by a handler
        /\ tweens # << >>
        /\ nToggles' = nToggles
        /\ sinceToggle' = sinceToggle + Quantum
        \* by no more than the ease moves the running tweens in one quantum
        /\ Abs(pinchStrengthRef' - pinchStrengthRef) <= Len(tweens) * EaseStepMax

\* C5: pinchStrength is written only by the tween that toggleTree starts;
\* under any sequence of toggles, also one issued while an earlier tween is
\* running, it stays within [0, 1] and is never jumped to 0 or 1.
C5_PinchEased ==
    /\ [](pinchStrengthRef >= 0 /\ pinchStrengthRef <= PScale)
    /\ [][PinchStep]_vars

\* a second toggle issued while the first tween runs, both tweens rendering
C5_Witness ==
    /\ Len(tweens) = 2
    /\ tweens[2].init
    /\ pinchStrengthRef > 0
    /\ pinchStrengthRef < PScale

\* C6: 1.5 s after the last toggleTree no tween is running, and whenever no
\* tween is running pinchStrength is 1 if the tree is formed and 0 if not.
C6_PinchSettles ==
    /\ sinceToggle >= TWEEN_DURATION => tweens = << >>
    /\ tweens = << >> =>
          pinchStrengthRef = (IF isTreeFormed THEN PScale ELSE 0)

\* settled at 0 after a toggle and a second one issued during its tween
C6_Witness ==
    /\ nToggles = 2
    /\ sinceToggle = TWEEN_DURATION
    /\ tweens = << >>
    /\ ~isTreeFormed
    /\ pinchStrengthRef = 0

\* the colors a theme's branch of the loop can assign
Palette(th) == { ThemeColor(th, rand) : rand \in 0..100 }

ThemeSwitchStep ==
    nThemeChanges' # nThemeChanges =>
        \A i \in 1..NParticles :
            /\ colors'[i] \in Palette(colorThemeRef')
            /\ colors'[i] \notin Palette(colorThemeRef) \ Palette(colorThemeRef')

\* C7: changeTheme reassigns the color of every particle to a palette entry of
\* the new theme; after the switch no particle holds a color that belongs only
\* to the old theme's palette.
C7_AllRecolored ==
    /\ [](\A i \in 1..NParticles : colors[i] \in Palette(colorThemeRef))
    /\ [][ThemeSwitchStep]_vars

\* after one switch, the particles in two different colors of the new theme
C7_Witness ==
    /\ nThemeChanges = 1
    /\ colorThemeRef = 1
    /\ \E i, j \in 1..NParticles : colors[i] # colors[j]
    /\ \A i \in 1..NParticles : colors[i] \notin Palette(0)

\* C8: the theme index starts at 0 and each changeTheme sets it to
\* (index + 1) mod 3: it lies in {0, 1, 2}, three consecutive changes return to
\* the starting theme, and the displayed name is the name of the index.
C8_ThemeCycle ==
    /\ colorThemeRef \in 0..(THEME_COUNT - 1)
    /\ colorThemeRef = nThemeChanges % THEME_COUNT
    /\ nThemeChanges = THEME_COUNT =>
          colorThemeRef = 0 /\ currentTheme = themeNames[1]
    /\ currentTheme = themeNames[colorThemeRef + 1]

\* back at the starting theme after three changes
C8_Witness ==
    /\ nThemeChanges = THEME_COUNT
    /\ colorThemeRef = 0
    /\ currentTheme = themeNames[1]

ControlsStep ==
    /\ nThemeChanges' # nThemeChanges => isTreeFormed
    /\ launches' # launches => isTreeFormed
    /\ nSnowCalls' # nSnowCalls =>
          isTreeFormed /\ ~snowVisible /\ ~isSnowingRef /\ snowTimers = << >>
    /\ ~isTreeFormed =>
          UNCHANGED <<nThemeChanges, launches, nSnowCalls, colorThemeRef,
                      colors>>

\* C9: the theme change and the fireworks can be triggered only while the tree
\* is formed, the snow only while the tree is formed and no snow window is
\* active; while the tree is not formed none of the three can occur.
C9_ControlsGated == [][ControlsStep]_vars

\* the three actions have occurred, the tree is scattered again and the snow
\* window is still open
C9_Witness ==
    /\ ~isTreeFormed
    /\ nToggles = 2
    /\ nThemeChanges >= 1
    /\ nSnowCalls >= 1
    /\ Len(launches) >= 1
    /\ snowVisible

\* the speed at which the pull of a frame and the damping balance
TerminalSpeed == RoundDiv(GRAVITY_STRENGTH * DAMPING, FScale - DAMPING)

\* the distance a particle at terminal speed covers in one frame
SettleEps == TerminalSpeed

DistSq(p, t) ==
    (t[1] - p[1]) * (t[1] - p[1]) + (t[2] - p[2]) * (t[2] - p[2])
    + (t[3] - p[3]) * (t[3] - p[3])

Near == DistSq(positions, targetTree) <= SettleEps * SettleEps

\* C10: with pinchStrength held at 1 on every frame, after enough frames
\* (SettleFrames) the position of the particle is within a fixed epsilon
\* (SettleEps) of its tree target and stays within it on all later frames.
C10_Settles ==
    (pinchStrengthRef = PScale /\ frameCount >= SettleFrames) => Near

\* inside the epsilon after SettleFrames frames from a start outside of it,
\* and not at rest
C10_Witness ==
    /\ pinchStrengthRef = PScale
    /\ frameCount >= SettleFrames
    /\ Near
    /\ DistSq(positions, targetTree) > RestDist * RestDist
    /\ velocities # <<0, 0, 0>>

-----------------------------------------------------------------------------
\* the speed at which the push of the explode branch, a jitter of the largest
\* size on each axis and the damping balance; a particle that crosses its
\* target at that speed turns round within this distance
ExplodeEps ==
    RoundDiv((EXPLOSION_STRENGTH + 3 * (BROWN_MOTION \div 2)) * DAMPING,
             FScale - DAMPING)

-----------------------------------------------------------------------------
\* the velocity a particle at p gains towards the target t in a frame: none
\* within the rest distance of t, else the unit direction to t times strength
RefGain(p, t, strength) ==
    IF DistSq(p, t) <= RestDist * RestDist THEN <<0, 0, 0>>
    ELSE [k \in 1..3 |->
             RoundDiv((t[k] - p[k]) * strength, sqrt(DistSq(p, t)))]

\* the reference step of a particle for a frame at pinch strength pinch and
\* with the jitter jit
RefStep(p, v, pinch, jit) ==
    LET gain == IF pinch > PinchThreshold
                THEN RefGain(p, targetTree,
                             RoundDiv(GRAVITY_STRENGTH * pinch, PScale))
                ELSE RefGain(p, targetExploded, EXPLOSION_STRENGTH)
        vel == [k \in 1..3 |->
                   RoundDiv((v[k] + gain[k] + jit[k]) * DAMPING, FScale)]
    IN  <<[k \in 1..3 |-> p[k] + vel[k]], vel>>

\* C12: every frame takes the particle through the reference step: towards
\* the tree target if the pinch strength is above 0.01 and towards the
\* exploded target otherwise, a gain only beyond the rest distance 0.01,
\* jitter only in the exploding branch, then the damping and the move
C12_Step ==
    frameCount' # frameCount =>
        \E jit \in IF pinchStrengthRef > PinchThreshold THEN { <<0, 0, 0>> }
                    ELSE BrownSamples :
            <<positions', velocities'>> =
                RefStep(positions, velocities, pinchStrengthRef, jit)

C12_ReferenceStep == [][C12_Step]_vars

\* MaxFrames frames have run, the pinch strength is part of the way to 1, and
\* the particle has left its exploded target and is moving
C12_Witness ==
    /\ frameCount = MaxFrames
    /\ pinchStrengthRef > PinchThreshold
    /\ pinchStrengthRef < PScale
    /\ DistSq(positions, targetExploded) > RestDist * RestDist
    /\ velocities # <<0, 0, 0>>

-----------------------------------------------------------------------------
\* a frame that adds AUTO_ROTATION to the y-rotation if auto holds, and leaves
\* the rotation of rotationCurrentRef alone if not
AutoRotates(auto) ==
    frameCount' # frameCount =>
        rotationCurrentRef' =
            IF auto
            THEN [rotationCurrentRef EXCEPT !.y = @ + AUTO_ROTATION]
            ELSE rotationCurrentRef

\* C13 as stated: every frame with no drag active and the tree formed
\* advances the y-rotation by 0.005, and no other frame advances it
C13_AutoWhenFormed == [][AutoRotates(~isDraggingRef /\ isTreeFormed)]_vars

\* C13: every frame with no drag active and the pinch strength above 0.5
\* advances the y-rotation by 0.005, and no other frame advances it
C13_AutoWhenActive ==
    [][AutoRotates(~isDraggingRef /\ pinchStrengthRef > ActiveThreshold)]_vars

\* with no mouse or touch event, the tree has been formed once and of the
\* MaxFrames frames, one has advanced the rotation and the others have not
C13_Witness ==
    /\ frameCount = MaxFrames
    /\ nEvents = 0
    /\ lastEvent = Event("none", [x |-> 0, y |-> 0], 0)
    /\ nToggles = 1
    /\ rotationCurrentRef.y = AUTO_ROTATION
    /\ treeGroupRotation.y = AUTO_ROTATION

-----------------------------------------------------------------------------
\* the event of a step that handles one, and what a drag from lastMouseRef
\* to that event adds to the rotation
IsEvent == nEvents' # nEvents
IsMove == lastEvent'.type \in { "mousemove", "touchmove" }
Dragged ==
    [x |-> rotationCurrentRef.x + (lastEvent'.y - lastMouseRef.y) * DRAG_ROTATION,
     y |-> rotationCurrentRef.y + (lastEvent'.x - lastMouseRef.x) * DRAG_ROTATION]

\* a drag becomes active only on a mouse down or a touch start with a single
\* touch, and ends on a mouse up or a touch end and on nothing else
DragStartsAndEnds ==
    /\ (~isDraggingRef /\ isDraggingRef') =>
           /\ IsEvent
           /\ \/ lastEvent'.type = "mousedown"
              \/ lastEvent'.type = "touchstart" /\ lastEvent'.touches = 1
    /\ (IsEvent /\ lastEvent'.type \in { "mouseup", "touchend" }) =>
           ~isDraggingRef'
    /\ (isDraggingRef /\ ~isDraggingRef') =>
           IsEvent /\ lastEvent'.type \in { "mouseup", "touchend" }

\* C14 as stated: a drag starts and ends as above; every move event of an
\* active drag adds 0.01 times the delta to the rotation, dx to y and dy to
\* x, and a move event with no drag active leaves the rotation unchanged
C14_DragStep ==
    /\ DragStartsAndEnds
    /\ (IsEvent /\ IsMove) =>
           rotationCurrentRef' =
               IF isDraggingRef THEN Dragged ELSE rotationCurrentRef

C14_EveryMoveDrags == [][C14_DragStep]_vars

\* C14: a drag starts and ends as above; a mouse move, or a touch move with
\* a single touch, of an active drag with the tree formed adds 0.01 times the
\* delta since lastMouseRef to the rotation, dx to y and dy to x, and takes
\* lastMouseRef to its position; every other event leaves the rotation
\* unchanged
C14_AppliedStep ==
    /\ DragStartsAndEnds
    /\ IsEvent =>
           IF /\ IsMove
              /\ isDraggingRef
              /\ isTreeFormed
              /\ lastEvent'.type = "touchmove" => lastEvent'.touches = 1
           THEN /\ rotationCurrentRef' = Dragged
                /\ lastMouseRef' = [x |-> lastEvent'.x, y |-> lastEvent'.y]
           ELSE rotationCurrentRef' = rotationCurrentRef

C14_AppliedMoveDrags == [][C14_AppliedStep]_vars

\* a drag is active and its last event, a mouse move of 4 pixels across and
\* 1 down, has turned the tree, before any frame
C14_Witness ==
    /\ isDraggingRef
    /\ lastEvent.type = "mousemove"
    /\ frameCount = 0
    /\ rotationCurrentRef = [x |-> DRAG_ROTATION, y |-> 4 * DRAG_ROTATION]

-----------------------------------------------------------------------------
\* C15: in every reachable state the live rotation, rotationCurrentRef, equals
\* the rotation target, rotationTargetRef
C15_CurrentIsTarget == rotationCurrentRef = rotationTargetRef

-----------------------------------------------------------------------------
\* the step is a run of the frame callback
IsFrame == frameCount' # frameCount

\* C16 as stated: the positions, the velocities, the colors, the snow
\* positions, the fireworks and the rotation state are written by the frame
\* callback and by no other handler
C16_OnlyFrameWrites ==
    [][<<positions, velocities, colors, snowPositions, fireworks,
         rotationVars>>' #
       <<positions, velocities, colors, snowPositions, fireworks, rotationVars>>
           => IsFrame]_vars

\* C16: the positions, the velocities, the snow positions and the rotation
\* of the tree group are written by the frame callback only, the colors by
\* changeTheme only, and rotationCurrentRef by the frame callback and by the
\* mouse move and touch move handlers only
C16_WritersStep ==
    /\ <<positions, velocities, snowPositions, treeGroupRotation>>' #
       <<positions, velocities, snowPositions, treeGroupRotation>> => IsFrame
    /\ colors' # colors => nThemeChanges' # nThemeChanges
    /\ rotationCurrentRef' # rotationCurrentRef =>
           IsFrame \/ (IsEvent /\ IsMove)

C16_Writers == [][C16_WritersStep]_vars

\* the theme has been changed and the colors are no longer those of the
\* mount, and frames have moved the particle and turned the tree
C16_Witness ==
    /\ nThemeChanges >= 1
    /\ colors[1] # InitialColor(25)
    /\ frameCount >= 1
    /\ positions # targetExploded
    /\ rotationCurrentRef.y >= AUTO_ROTATION
    /\ treeGroupRotation = rotationCurrentRef

-----------------------------------------------------------------------------
\* C17: while the snow is visible, at the end of every frame every snow
\* particle is at the floor -15 or above it, a particle that fell below being
\* put back on top by the same frame; and the snow particles stay NSnow
C17_SnowAboveFloor ==
    /\ DOMAIN snowPositions = 1..NSnow
    /\ snowVisible =>
           \A i \in 1..NSnow : snowPositions[i][2] >= SNOW_FLOOR

\* a frame has just put a snow particle that fell below the floor back on
\* top, at a new place
C17_Witness ==
    /\ snowVisible
    /\ frameCount >= 1
    /\ \E i \in 1..NSnow :
          /\ snowPositions[i][2] = SNOW_TOP
          /\ snowPositions[i][1] \in SpreadSamples
          /\ snowPositions[i][3] \in SpreadSamples

-----------------------------------------------------------------------------
\* C18: every firework, created by its layer's callback, has the opacity 1 on
\* every frame on which its age is below 70% of its lifetime, then an opacity
\* that decreases linearly with its age, and the opacity 0 once it has been
\* removed
C18_OpacityFades ==
    \A i \in DOMAIN spawned :
        \E j \in DOMAIN fireworks :
            LET fw == fireworks[j]
                age == spawned[i].frames * FRAME_DT
            IN  /\ fw.launch = spawned[i].launch
                /\ fw.layerIndex = spawned[i].layerIndex
                /\ (fw.active /\ 10 * age < 7 * FW_LIFETIME) =>
                       fw.opacity = FScale
                /\ (fw.active /\ 10 * age >= 7 * FW_LIFETIME) =>
                       fw.opacity =
                           RoundDiv((FW_LIFETIME - age) * FScale * 10,
                                    3 * FW_LIFETIME)
                /\ ~fw.active => fw.opacity = 0

-----------------------------------------------------------------------------
\* C19: in every reachable state isSnowingRef equals the visibility of the
\* snow field, at most one hide timer is pending, and one is pending exactly
\* while isSnowingRef is set, so that toggleSnow passes its guard again once
\* the timer has fired
C19_FlagVisibleTimer ==
    /\ isSnowingRef = snowVisible
    /\ Len(snowTimers) <= 1
    /\ (Len(snowTimers) = 1) = isSnowingRef

\* the timer of a first window has fired and a later call has shown the
\* snow again, with a timer of its own
C19_Witness ==
    /\ snowWindows = 2
    /\ isSnowingRef
    /\ snowVisible
    /\ Len(snowTimers) = 1

=============================================================================
